---- MODULE Spec2Model ----
(***************************************************************************)
(* Model of libvirt/coreos_ignition_def.go: the defIgnition provisioning   *)
(* call CreateAndUpload, the identifier codec (buildTerraformKey and       *)
(* getIgnitionVolumeKeyFromTerraformID) and the payload materializer       *)
(* createFile.                                                             *)
(*                                                                         *)
(* Strings that the codec inspects (volume keys, identifiers, tokens) are  *)
(* sequences of one-character strings.  Names, pool names and payloads are *)
(* TLA+ strings.                                                           *)
(***************************************************************************)
EXTENDS Integers, Sequences, FiniteSets, TLC

----------------------------------------------------------------------------
(* Bounds of the model *)

\* number of concurrent CreateAndUpload calls
NumCalls == 2
\* number of pool.Refresh attempts WaitForSuccess makes before it gives up
MaxRetries == 2
\* longest volume key / identifier given to the codec on its own
MaxLen == 3
\* number of buildTerraformKey calls made on the codec on its own
MaxEncodes == 3

Calls == 1..NumCalls

----------------------------------------------------------------------------
(* Inputs *)

Names == {"node1", "node2"}
PoolNames == {"default", "images"}

\* files present on the local disk before any call: path -> contents
LocalFiles == [p \in {"/tmp/ign.json"} |-> "{\"ignition\":{\"version\":\"3.0.0\"}}"]

\* inline payloads json.Unmarshal accepts as a map[string]interface{}
JsonObjects == {"{\"a\":1}"}

Payloads == (DOMAIN LocalFiles) \cup JsonObjects \cup {"not json and not a file"}

\* characters of keys and identifiers; ";" is the delimiter
Alphabet == {"a", "b", ";"}

\* volume keys the host may assign (libvirt keys are paths or opaque ids)
HostKeys == {<<"a">>, <<"b", ";", "a">>, <<"b">>}

RECURSIVE SeqsUpTo(_, _)
SeqsUpTo(S, n) ==
    IF n = 0 THEN {<<>>}
    ELSE LET shorter == SeqsUpTo(S, n - 1)
         IN  shorter \cup {Append(s, ch) : s \in {t \in shorter : Len(t) = n - 1}, ch \in S}

Strings == SeqsUpTo(Alphabet, MaxLen)

None == "none"
NoErr == "nil"

----------------------------------------------------------------------------
(* Errors returned by the code *)

ErrPoolNotFound == "can't find storage pool"
ErrRefresh == "Error refreshing pool for volume"
ErrTempFile == "Cannot create tmp file for Ignition"
ErrInvalidPayload == "coreos_ignition 'content' is neither a file nor a valid json object"
ErrWrite == "Cannot write Ignition object to temporary ignition file"
ErrOpen == "Error opening supplied Ignition file"
ErrCopy == "Error copying supplied Igition file to temporary file"
ErrImage == "newImage failed"
ErrSize == "img.Size failed"
ErrMarshal == "Error serializing libvirt volume"
ErrCreate == "Error creating libvirt volume for Ignition"
ErrUpload == "Error while uploading ignition file"
ErrGetKey == "Error retrieving volume key"
ErrInvalidKey == "is not a valid key"
ErrCantRetrieve == "Can't retrieve volume"
ErrVolName == "Error retrieving volume name"
ErrPoolForVolume == "Error retrieving pool for volume"
ErrPoolName == "Error retrieving pool name"

----------------------------------------------------------------------------
(* State *)

VARIABLES
    pc,          \* pc[c]: the statement of CreateAndUpload call c is about to run
    ign,         \* ign[c]: the defIgnition receiver of call c
    tries,       \* tries[c]: failed pool.Refresh attempts of the running WaitForSuccess
    volumeDef,   \* volumeDef[c]: the volume descriptor under construction
    size,        \* size[c]: result of img.Size()
    defers,      \* defers[c]: deferred calls registered so far, oldest first
    poolHandle,  \* poolHandle[c]: "none", "open" or "freed"
    volHandle,   \* volHandle[c]: [key, state], state "none", "open" or "freed"
    ret,         \* ret[c]: [id, err] returned by the call, once pc[c] = "done"
    events,      \* events[c]: the calls made by call c so far, with their outcome
    lockHolder,  \* lockHolder[p]: the call holding the lock of pool p, 0 when unlocked
    disk,        \* disk[c]: None, or the contents of the temp file of call c
    volumes,     \* the volumes on the host
    clock,       \* number of tokens uuid.TimeOrderedUUID has issued
    issued,      \* identifiers issued so far, in order
    cKey,        \* codec on its own: the volume key given to buildTerraformKey
    cId,         \* codec on its own: the identifier under decoding
    cOut,        \* codec on its own: [key, err] returned by decoding, or NoResult
    rPc,         \* the statement newIgnitionDefFromRemoteVol is about to run
    rId,         \* the identifier given to newIgnitionDefFromRemoteVol
    rKey,        \* the volume key it decoded
    rIgn,        \* the defIgnition it fills in and returns
    rErr,        \* [msg, key]: the error it returns and the key the error names
    rVol,        \* [key, state]: its volume handle, state "none", "open" or "freed"
    rPool,       \* [name, state]: its handle of the owning pool
    rFault       \* a host call of the resolve failed for a reason of the host

callVars == <<pc, ign, tries, volumeDef, size, defers, poolHandle, volHandle, ret, events>>
hostVars == <<lockHolder, disk, volumes>>
codecVars == <<cKey, cId, cOut>>
resolveVars == <<rPc, rId, rKey, rIgn, rErr, rVol, rPool, rFault>>
vars == <<callVars, hostVars, clock, issued, codecVars, resolveVars>>

----------------------------------------------------------------------------
(* Helpers *)

Range(s) == {s[i] : i \in DOMAIN s}

\* index of the first occurrence of ch in s, 0 when there is none
IndexOf(s, ch) ==
    IF \E i \in DOMAIN s : s[i] = ch
    THEN CHOOSE i \in DOMAIN s : s[i] = ch /\ \A j \in 1..(i - 1) : s[j] # ch
    ELSE 0

\* strings.SplitN(s, sep, 2): at most two pieces, cut at the first sep
SplitN2(s, sep) ==
    LET i == IndexOf(s, sep)
    IN  IF i = 0 THEN <<s>>
        ELSE <<SubSeq(s, 1, i - 1), SubSeq(s, i + 1, Len(s))>>

\* uuid.TimeOrderedUUID(): the n-th token issued; tokens never hold a ";"
TimeOrderedUUID(n) == [i \in 1..(n + 1) |-> "u"]

----------------------------------------------------------------------------
(* Identifier codec *)

buildTerraformKeyStale(volumeKey, n) == volumeKey \o <<";">> \o TimeOrderedUUID(0)

buildTerraformKey(volumeKey, n) == volumeKey \o <<";">> \o TimeOrderedUUID(n)

getIgnitionVolumeKeyFromTerraformIDLax(id) ==
    LET s == SplitN2(id, ";")
    IN  IF Len(s) < 1
        THEN [key |-> <<>>, err |-> ErrInvalidKey]
        ELSE [key |-> s[1], err |-> NoErr]

getIgnitionVolumeKeyFromTerraformID(id) ==
    LET s == SplitN2(id, ";")
    IN  IF Len(s) # 2
        THEN [key |-> <<>>, err |-> ErrInvalidKey]
        ELSE [key |-> s[1], err |-> NoErr]

----------------------------------------------------------------------------
(* Payload materializer *)

\* what the local file system does to one createFile call
FileEnvs == [temp : BOOLEAN, open : BOOLEAN, io : BOOLEAN]

\* createFile() with payload content under env: the error returned (NoErr on
\* success) and the contents of the temp file left on disk (None: no file)
createFileNoCheck(content, env) ==
    IF ~env.temp THEN [err |-> ErrTempFile, file |-> None]
    ELSE IF content \notin DOMAIN LocalFiles
    THEN IF ~env.io THEN [err |-> ErrWrite, file |-> ""]
         ELSE [err |-> NoErr, file |-> content]
    ELSE IF ~env.open THEN [err |-> ErrOpen, file |-> ""]
    ELSE IF ~env.io THEN [err |-> ErrCopy, file |-> ""]
    ELSE [err |-> NoErr, file |-> LocalFiles[content]]

\* a createFile that writes the payload string also when it names a file
createFileRaw(content, env) ==
    IF ~env.temp THEN [err |-> ErrTempFile, file |-> None]
    ELSE IF content \notin DOMAIN LocalFiles
    THEN IF content \notin JsonObjects THEN [err |-> ErrInvalidPayload, file |-> ""]
         ELSE IF ~env.io THEN [err |-> ErrWrite, file |-> ""]
         ELSE [err |-> NoErr, file |-> content]
    ELSE IF ~env.open THEN [err |-> ErrOpen, file |-> ""]
    ELSE IF ~env.io THEN [err |-> ErrCopy, file |-> ""]
    ELSE [err |-> NoErr, file |-> content]

createFile(content, env) ==
    IF ~env.temp THEN [err |-> ErrTempFile, file |-> None]
    ELSE IF content \notin DOMAIN LocalFiles
    THEN IF content \notin JsonObjects THEN [err |-> ErrInvalidPayload, file |-> ""]
         ELSE IF ~env.io THEN [err |-> ErrWrite, file |-> ""]
         ELSE [err |-> NoErr, file |-> content]
    ELSE IF ~env.open THEN [err |-> ErrOpen, file |-> ""]
    ELSE IF ~env.io THEN [err |-> ErrCopy, file |-> ""]
    ELSE [err |-> NoErr, file |-> LocalFiles[content]]

----------------------------------------------------------------------------
(* CreateAndUpload *)

\* newIgnitionDef(): the zero defIgnition
newIgnitionDef == [Name |-> "", PoolName |-> "", Content |-> ""]

\* the requests a caller may fill a defIgnition with
Requests == [Name : Names, PoolName : PoolNames, Content : Payloads]

\* newDefVolume(): the descriptor before CreateAndUpload fills it in
newDefVolume == [Name |-> "", Unit |-> "", Value |-> 0, Format |-> ""]

NoHandle == [key |-> <<>>, state |-> "none"]
NoResult == [key |-> <<>>, err |-> None]

\* poolSync.GetLock(name): one lock per pool name
GetLock(poolName) == poolName

\* the statements of CreateAndUpload that run under the pool lock (steps 3-9)
LockedSteps == {"Refresh", "createFile", "newImage", "Size", "Marshal",
                "StorageVolCreateXML", "Import", "GetKey"}

Ev(op, ok) == [op |-> op, ok |-> ok]

RECURSIVE Reverse(_)
Reverse(s) == IF s = <<>> THEN <<>> ELSE Append(Reverse(Tail(s)), Head(s))

\* the deferred calls of a return, last registered first, with their outcome
Deferred(dfs, rmOK) ==
    LET r == Reverse(dfs)
    IN  [i \in DOMAIN r |-> Ev(r[i], IF r[i] = "os.Remove" THEN rmOK ELSE TRUE)]

\* a return that does not run the deferred lock.Unlock
ReturnNoUnlock(c, id, err, dsk, evs) ==
    \E rmOK \in IF "os.Remove" \in Range(defers[c]) THEN BOOLEAN ELSE {TRUE} :
        /\ pc' = [pc EXCEPT ![c] = "done"]
        /\ ret' = [ret EXCEPT ![c] = [id |-> id, err |-> err]]
        /\ volHandle' = IF "volume.Free" \in Range(defers[c])
                        THEN [volHandle EXCEPT ![c].state = "freed"]
                        ELSE volHandle
        /\ disk' = IF "os.Remove" \in Range(defers[c]) /\ rmOK
                   THEN [dsk EXCEPT ![c] = None]
                   ELSE dsk
        /\ lockHolder' = lockHolder
        /\ poolHandle' = IF "pool.Free" \in Range(defers[c])
                         THEN [poolHandle EXCEPT ![c] = "freed"]
                         ELSE poolHandle
        /\ events' = [evs EXCEPT ![c] = @ \o Deferred(defers[c], rmOK)]
        /\ defers' = [defers EXCEPT ![c] = <<>>]

ErrRemove == "Error while removing tmp Ignition file"

\* a return whose error is overwritten by the error of the deferred os.Remove
ReturnRemoveErr(c, id, err, dsk, evs) ==
    \E rmOK \in IF "os.Remove" \in Range(defers[c]) THEN BOOLEAN ELSE {TRUE} :
        /\ pc' = [pc EXCEPT ![c] = "done"]
        /\ ret' = [ret EXCEPT ![c] = [id |-> id, err |-> IF rmOK THEN err ELSE ErrRemove]]
        /\ volHandle' = IF "volume.Free" \in Range(defers[c])
                        THEN [volHandle EXCEPT ![c].state = "freed"]
                        ELSE volHandle
        /\ disk' = IF "os.Remove" \in Range(defers[c]) /\ rmOK
                   THEN [dsk EXCEPT ![c] = None]
                   ELSE dsk
        /\ lockHolder' = IF "lock.Unlock" \in Range(defers[c])
                         THEN [lockHolder EXCEPT ![GetLock(ign[c].PoolName)] = 0]
                         ELSE lockHolder
        /\ poolHandle' = IF "pool.Free" \in Range(defers[c])
                         THEN [poolHandle EXCEPT ![c] = "freed"]
                         ELSE poolHandle
        /\ events' = [evs EXCEPT ![c] = @ \o Deferred(defers[c], rmOK)]
        /\ defers' = [defers EXCEPT ![c] = <<>>]

\* `return id, err`: the results are fixed, then the deferred calls run, last
\* registered first: volume.Free, os.Remove (which may fail), lock.Unlock,
\* pool.Free.  dsk is the disk and evs the events as the returning statement
\* leaves them.  The deferred calls are one step with the return: they touch
\* only the call's own handles, its own temp file and the lock it holds, so
\* no other call can observe a state between them other than through the
\* lock, which is released after the volume handle and the temp file are
\* dealt with and before the pool handle is freed.
Return(c, id, err, dsk, evs) ==
    \E rmOK \in IF "os.Remove" \in Range(defers[c]) THEN BOOLEAN ELSE {TRUE} :
        /\ pc' = [pc EXCEPT ![c] = "done"]
        /\ ret' = [ret EXCEPT ![c] = [id |-> id, err |-> err]]
        /\ volHandle' = IF "volume.Free" \in Range(defers[c])
                        THEN [volHandle EXCEPT ![c].state = "freed"]
                        ELSE volHandle
        /\ disk' = IF "os.Remove" \in Range(defers[c]) /\ rmOK
                   THEN [dsk EXCEPT ![c] = None]
                   ELSE dsk
        /\ lockHolder' = IF "lock.Unlock" \in Range(defers[c])
                         THEN [lockHolder EXCEPT ![GetLock(ign[c].PoolName)] = 0]
                         ELSE lockHolder
        /\ poolHandle' = IF "pool.Free" \in Range(defers[c])
                         THEN [poolHandle EXCEPT ![c] = "freed"]
                         ELSE poolHandle
        /\ events' = [evs EXCEPT ![c] = @ \o Deferred(defers[c], rmOK)]
        /\ defers' = [defers EXCEPT ![c] = <<>>]

\* the statement succeeded: control moves on to statement next
Goto(c, next, evs) ==
    /\ pc' = [pc EXCEPT ![c] = next]
    /\ events' = evs
    /\ UNCHANGED ret

Did(c, op, ok) == [events EXCEPT ![c] = Append(@, Ev(op, ok))]

\* lines 35-39: the caller fills in the request; the pool is looked up
LookupStoragePoolByName(c) ==
    /\ pc[c] = "idle"
    /\ \E r \in Requests, found \in BOOLEAN :
        /\ ign' = [ign EXCEPT ![c] = r]
        /\ IF found
           THEN /\ poolHandle' = [poolHandle EXCEPT ![c] = "open"]
                /\ defers' = [defers EXCEPT ![c] = Append(@, "pool.Free")]
                /\ Goto(c, "Lock", Did(c, "LookupStoragePoolByName", TRUE))
                /\ UNCHANGED <<volHandle, disk, lockHolder>>
           ELSE /\ pc' = [pc EXCEPT ![c] = "done"]
                /\ ret' = [ret EXCEPT ![c] = [id |-> <<>>, err |-> ErrPoolNotFound]]
                /\ events' = Did(c, "LookupStoragePoolByName", FALSE)
                /\ UNCHANGED <<poolHandle, defers, volHandle, disk, lockHolder>>
    /\ UNCHANGED <<tries, volumeDef, size, volumes, clock, issued, codecVars, resolveVars>>

\* a Lock that does not wait for the holder
LockNoWait(c) ==
    /\ pc[c] = "Lock"
    /\ lockHolder' = [lockHolder EXCEPT ![GetLock(ign[c].PoolName)] = c]
    /\ defers' = [defers EXCEPT ![c] = Append(@, "lock.Unlock")]
    /\ Goto(c, "Refresh", Did(c, "lock.Lock", TRUE))
    /\ UNCHANGED <<ign, tries, volumeDef, size, poolHandle, volHandle,
                   disk, volumes, clock, issued, codecVars, resolveVars>>

\* a Lock whose Unlock is not deferred
LockNoDefer(c) ==
    /\ pc[c] = "Lock"
    /\ lockHolder[GetLock(ign[c].PoolName)] = 0
    /\ lockHolder' = [lockHolder EXCEPT ![GetLock(ign[c].PoolName)] = c]
    /\ Goto(c, "Refresh", Did(c, "lock.Lock", TRUE))
    /\ UNCHANGED <<ign, tries, volumeDef, size, defers, poolHandle, volHandle,
                   disk, volumes, clock, issued, codecVars, resolveVars>>

\* a Lock on one lock for all pools
LockGlobal(c) ==
    /\ pc[c] = "Lock"
    /\ lockHolder[GetLock("default")] = 0
    /\ lockHolder' = [lockHolder EXCEPT ![GetLock("default")] = c]
    /\ defers' = [defers EXCEPT ![c] = Append(@, "lock.Unlock")]
    /\ Goto(c, "Refresh", Did(c, "lock.Lock", TRUE))
    /\ UNCHANGED <<ign, tries, volumeDef, size, poolHandle, volHandle,
                   disk, volumes, clock, issued, codecVars, resolveVars>>

\* lines 41-43: lock.Lock() blocks until the pool's lock is free
Lock(c) ==
    /\ pc[c] = "Lock"
    /\ lockHolder[GetLock(ign[c].PoolName)] = 0
    /\ lockHolder' = [lockHolder EXCEPT ![GetLock(ign[c].PoolName)] = c]
    /\ defers' = [defers EXCEPT ![c] = Append(@, "lock.Unlock")]
    /\ Goto(c, "Refresh", Did(c, "lock.Lock", TRUE))
    /\ UNCHANGED <<ign, tries, volumeDef, size, poolHandle, volHandle,
                   disk, volumes, clock, issued, codecVars, resolveVars>>

\* a Refresh whose final error does not end the call
RefreshIgnoreError(c) ==
    /\ pc[c] = "Refresh"
    /\ \E ok \in BOOLEAN :
        LET evs == Did(c, "pool.Refresh", ok)
        IN  IF ok \/ tries[c] + 1 >= MaxRetries
            THEN /\ Goto(c, "createFile", [evs EXCEPT ![c] = Append(@, Ev("WaitForSuccess", ok))])
                 /\ tries' = [tries EXCEPT ![c] = 0]
                 /\ volumeDef' = [volumeDef EXCEPT ![c] = [newDefVolume EXCEPT !.Name = ign[c].Name]]
                 /\ UNCHANGED <<volHandle, disk, lockHolder, poolHandle, defers>>
            ELSE /\ tries' = [tries EXCEPT ![c] = @ + 1]
                 /\ events' = evs
                 /\ UNCHANGED <<pc, volumeDef, ret, volHandle, disk, lockHolder, poolHandle, defers>>
    /\ UNCHANGED <<ign, size, volumes, clock, issued, codecVars, resolveVars>>

\* lines 47-55: one pool.Refresh attempt inside WaitForSuccess, which gives
\* up after MaxRetries failed attempts
Refresh(c) ==
    /\ pc[c] = "Refresh"
    /\ \E ok \in BOOLEAN :
        LET evs == Did(c, "pool.Refresh", ok)
        IN  IF ok
            THEN /\ Goto(c, "createFile", [evs EXCEPT ![c] = Append(@, Ev("WaitForSuccess", TRUE))])
                 /\ tries' = [tries EXCEPT ![c] = 0]
                 /\ volumeDef' = [volumeDef EXCEPT ![c] = [newDefVolume EXCEPT !.Name = ign[c].Name]]
                 /\ UNCHANGED <<volHandle, disk, lockHolder, poolHandle, defers>>
            ELSE IF tries[c] + 1 < MaxRetries
            THEN /\ tries' = [tries EXCEPT ![c] = @ + 1]
                 /\ events' = evs
                 /\ UNCHANGED <<pc, volumeDef, ret, volHandle, disk, lockHolder, poolHandle, defers>>
            ELSE /\ tries' = [tries EXCEPT ![c] = 0]
                 /\ Return(c, <<>>, ErrRefresh, disk,
                           [evs EXCEPT ![c] = Append(@, Ev("WaitForSuccess", FALSE))])
                 /\ UNCHANGED volumeDef
    /\ UNCHANGED <<ign, size, volumes, clock, issued, codecVars, resolveVars>>

\* lines 57-66: createFile(); on success the temp file's removal is deferred
createFileStep(c) ==
    /\ pc[c] = "createFile"
    /\ \E env \in FileEnvs :
        LET r == createFile(ign[c].Content, env)
            dsk == [disk EXCEPT ![c] = r.file]
        IN  IF r.err = NoErr
            THEN /\ disk' = dsk
                 /\ defers' = [defers EXCEPT ![c] = Append(@, "os.Remove")]
                 /\ Goto(c, "newImage", Did(c, "createFile", TRUE))
                 /\ UNCHANGED <<volHandle, lockHolder, poolHandle>>
            ELSE Return(c, <<>>, r.err, dsk, Did(c, "createFile", FALSE))
    /\ UNCHANGED <<ign, tries, volumeDef, size, volumes, clock, issued, codecVars, resolveVars>>

\* a newImage whose error does not end the call
newImageNoReturn(c) ==
    /\ pc[c] = "newImage"
    /\ \E ok \in BOOLEAN :
        /\ Goto(c, "Size", Did(c, "newImage", ok))
        /\ UNCHANGED <<volHandle, disk, lockHolder, poolHandle, defers>>
    /\ UNCHANGED <<ign, tries, volumeDef, size, volumes, clock, issued, codecVars, resolveVars>>

\* lines 68-71: newImage(ignFile)
newImage(c) ==
    /\ pc[c] = "newImage"
    /\ \E ok \in BOOLEAN :
        IF ok
        THEN /\ Goto(c, "Size", Did(c, "newImage", TRUE))
             /\ UNCHANGED <<volHandle, disk, lockHolder, poolHandle, defers>>
        ELSE Return(c, <<>>, ErrImage, disk, Did(c, "newImage", FALSE))
    /\ UNCHANGED <<ign, tries, volumeDef, size, volumes, clock, issued, codecVars, resolveVars>>

\* lines 78-80 with a descriptor that keeps the default format
fillVolumeDefNoFormat(def, sz) == [def EXCEPT !.Unit = "B", !.Value = sz]

\* lines 78-80: capacity in bytes, raw format
fillVolumeDef(def, sz) == [def EXCEPT !.Unit = "B", !.Value = sz, !.Format = "raw"]

\* lines 73-80: img.Size() is the byte length of the artifact
Size(c) ==
    /\ pc[c] = "Size"
    /\ \E ok \in BOOLEAN :
        IF ok
        THEN /\ size' = [size EXCEPT ![c] = Len(disk[c])]
             /\ volumeDef' = [volumeDef EXCEPT ![c] = fillVolumeDef(@, Len(disk[c]))]
             /\ Goto(c, "Marshal", Did(c, "Size", TRUE))
             /\ UNCHANGED <<volHandle, disk, lockHolder, poolHandle, defers>>
        ELSE /\ Return(c, <<>>, ErrSize, disk, Did(c, "Size", FALSE))
             /\ UNCHANGED <<size, volumeDef>>
    /\ UNCHANGED <<ign, tries, volumes, clock, issued, codecVars, resolveVars>>

\* lines 82-85: xml.Marshal(volumeDef)
Marshal(c) ==
    /\ pc[c] = "Marshal"
    /\ \E ok \in BOOLEAN :
        IF ok
        THEN /\ Goto(c, "StorageVolCreateXML", Did(c, "Marshal", TRUE))
             /\ UNCHANGED <<volHandle, disk, lockHolder, poolHandle, defers>>
        ELSE Return(c, <<>>, ErrMarshal, disk, Did(c, "Marshal", FALSE))
    /\ UNCHANGED <<ign, tries, volumeDef, size, volumes, clock, issued, codecVars, resolveVars>>

UsedKeys == {v.key : v \in volumes}

\* a volume creation that does not defer volume.Free
StorageVolCreateXMLNoFree(c) ==
    /\ pc[c] = "StorageVolCreateXML"
    /\ \/ \E k \in HostKeys \ UsedKeys :
            /\ volumes' = volumes \cup
                   {[pool |-> ign[c].PoolName, name |-> volumeDef[c].Name,
                     cap |-> volumeDef[c].Value, unit |-> volumeDef[c].Unit,
                     fmt |-> volumeDef[c].Format, key |-> k,
                     data |-> None, upsize |-> -1]}
            /\ volHandle' = [volHandle EXCEPT ![c] = [key |-> k, state |-> "open"]]
            /\ Goto(c, "Import", Did(c, "StorageVolCreateXML", TRUE))
            /\ UNCHANGED <<disk, lockHolder, poolHandle, defers>>
       \/ /\ Return(c, <<>>, ErrCreate, disk, Did(c, "StorageVolCreateXML", FALSE))
          /\ UNCHANGED volumes
    /\ UNCHANGED <<ign, tries, volumeDef, size, clock, issued, codecVars, resolveVars>>

\* lines 88-92: the host creates the volume the descriptor describes in the
\* pool of the handle and assigns it a key no other volume has
StorageVolCreateXML(c) ==
    /\ pc[c] = "StorageVolCreateXML"
    /\ \/ \E k \in HostKeys \ UsedKeys :
            /\ volumes' = volumes \cup
                   {[pool |-> ign[c].PoolName, name |-> volumeDef[c].Name,
                     cap |-> volumeDef[c].Value, unit |-> volumeDef[c].Unit,
                     fmt |-> volumeDef[c].Format, key |-> k,
                     data |-> None, upsize |-> -1]}
            /\ volHandle' = [volHandle EXCEPT ![c] = [key |-> k, state |-> "open"]]
            /\ defers' = [defers EXCEPT ![c] = Append(@, "volume.Free")]
            /\ Goto(c, "Import", Did(c, "StorageVolCreateXML", TRUE))
            /\ UNCHANGED <<disk, lockHolder, poolHandle>>
       \/ /\ Return(c, <<>>, ErrCreate, disk, Did(c, "StorageVolCreateXML", FALSE))
          /\ UNCHANGED volumes
    /\ UNCHANGED <<ign, tries, volumeDef, size, clock, issued, codecVars, resolveVars>>

\* the volume of call c's handle, with the upload applied
Uploaded(c) ==
    {IF v.key = volHandle[c].key
     THEN [v EXCEPT !.data = disk[c], !.upsize = volumeDef[c].Value]
     ELSE v : v \in volumes}

\* an Import that deletes the volume when the upload fails
ImportRollback(c) ==
    /\ pc[c] = "Import"
    /\ \E ok \in BOOLEAN :
        IF ok
        THEN /\ volumes' = Uploaded(c)
             /\ Goto(c, "GetKey", Did(c, "Import", TRUE))
             /\ UNCHANGED <<volHandle, disk, lockHolder, poolHandle, defers>>
        ELSE /\ Return(c, <<>>, ErrUpload, disk, Did(c, "Import", FALSE))
             /\ volumes' = {v \in volumes : v.key # volHandle[c].key}
    /\ UNCHANGED <<ign, tries, volumeDef, size, clock, issued, codecVars, resolveVars>>

\* lines 95-98: img.Import with a copier sized to volumeDef.Capacity.Value
Import(c) ==
    /\ pc[c] = "Import"
    /\ \E ok \in BOOLEAN :
        IF ok
        THEN /\ volumes' = Uploaded(c)
             /\ Goto(c, "GetKey", Did(c, "Import", TRUE))
             /\ UNCHANGED <<volHandle, disk, lockHolder, poolHandle, defers>>
        ELSE /\ Return(c, <<>>, ErrUpload, disk, Did(c, "Import", FALSE))
             /\ UNCHANGED volumes
    /\ UNCHANGED <<ign, tries, volumeDef, size, clock, issued, codecVars, resolveVars>>

\* a GetKey whose failure still returns an identifier
GetKeyPartial(c) ==
    /\ pc[c] = "GetKey"
    /\ \E ok \in BOOLEAN :
        LET id == buildTerraformKey(IF ok THEN volHandle[c].key ELSE <<>>, clock)
        IN  /\ Return(c, id, IF ok THEN NoErr ELSE ErrGetKey, disk, Did(c, "GetKey", ok))
            /\ clock' = clock + 1
            /\ issued' = Append(issued, id)
    /\ UNCHANGED <<ign, tries, volumeDef, size, volumes, codecVars, resolveVars>>

\* lines 100-105: volume.GetKey(), then the identifier is built and returned
GetKey(c) ==
    /\ pc[c] = "GetKey"
    /\ \E ok \in BOOLEAN :
        IF ok
        THEN LET id == buildTerraformKey(volHandle[c].key, clock)
             IN  /\ Return(c, id, NoErr, disk, Did(c, "GetKey", TRUE))
                 /\ clock' = clock + 1
                 /\ issued' = Append(issued, id)
        ELSE /\ Return(c, <<>>, ErrGetKey, disk, Did(c, "GetKey", FALSE))
             /\ UNCHANGED <<clock, issued>>
    /\ UNCHANGED <<ign, tries, volumeDef, size, volumes, codecVars, resolveVars>>

CreateAndUpload(c) ==
    \/ LookupStoragePoolByName(c)
    \/ Lock(c)
    \/ Refresh(c)
    \/ createFileStep(c)
    \/ newImage(c)
    \/ Size(c)
    \/ Marshal(c)
    \/ StorageVolCreateXML(c)
    \/ Import(c)
    \/ GetKey(c)

----------------------------------------------------------------------------
(* newIgnitionDefFromRemoteVol *)

ResolveIdle ==
    /\ rPc = "idle"
    /\ rId = <<>>
    /\ rKey = <<>>
    /\ rIgn = newIgnitionDef
    /\ rErr = [msg |-> NoErr, key |-> <<>>]
    /\ rVol = NoHandle
    /\ rPool = [name |-> "", state |-> "none"]
    /\ rFault = FALSE

\* the identifiers a caller may hand in besides those CreateAndUpload issued
ResolveIds == Strings

\* the volume on the host with key k
VolumeByKey(k) == CHOOSE v \in volumes : v.key = k

Release(state) == IF state = "open" THEN "freed" ELSE state

\* a return that runs the deferred volume.Free only
ResolveReturnLeak(err, vol, pool, ig) ==
    /\ rPc' = "done"
    /\ rErr' = err
    /\ rIgn' = ig
    /\ rVol' = [vol EXCEPT !.state = Release(@)]
    /\ rPool' = pool

\* `return ign, err`: the deferred calls free the handles obtained so far,
\* volPool.Free (line 188) before volume.Free (line 177)
ResolveReturn(err, vol, pool, ig) ==
    /\ rPc' = "done"
    /\ rErr' = err
    /\ rIgn' = ig
    /\ rVol' = [vol EXCEPT !.state = Release(@)]
    /\ rPool' = [pool EXCEPT !.state = Release(@)]

\* lines 166-171: the identifier is decoded
ResolveDecode ==
    /\ rPc = "idle"
    /\ \E id \in ResolveIds \cup Range(issued) :
        LET d == getIgnitionVolumeKeyFromTerraformID(id)
        IN  /\ rId' = id
            /\ IF d.err = NoErr
               THEN /\ rKey' = d.key
                    /\ rPc' = "LookupStorageVolByKey"
                    /\ UNCHANGED <<rIgn, rErr, rVol, rPool>>
               ELSE /\ rKey' = d.key
                    /\ ResolveReturn([msg |-> d.err, key |-> <<>>], rVol, rPool, rIgn)
    /\ UNCHANGED <<callVars, hostVars, clock, issued, codecVars, rFault>>

\* lines 173-177: the volume is looked up by the decoded key
ResolveLookupVol ==
    /\ rPc = "LookupStorageVolByKey"
    /\ LET found == \E v \in volumes : v.key = rKey
       IN  \E fault \in IF found THEN BOOLEAN ELSE {FALSE} :
            /\ rFault' = (rFault \/ fault)
            /\ IF found /\ ~fault
               THEN /\ rVol' = [key |-> rKey, state |-> "open"]
                    /\ rPc' = "GetName"
                    /\ UNCHANGED <<rIgn, rErr, rPool>>
               ELSE ResolveReturn([msg |-> ErrCantRetrieve, key |-> rKey], rVol, rPool, rIgn)
    /\ UNCHANGED <<callVars, hostVars, clock, issued, codecVars, rId, rKey>>

\* lines 179-182: ign.Name, err = volume.GetName()
ResolveGetName ==
    /\ rPc = "GetName"
    /\ \E ok \in BOOLEAN :
        /\ rFault' = (rFault \/ ~ok)
        /\ IF ok
           THEN /\ rIgn' = [rIgn EXCEPT !.Name = VolumeByKey(rVol.key).name]
                /\ rPc' = "LookupPoolByVolume"
                /\ UNCHANGED <<rErr, rVol, rPool>>
           ELSE ResolveReturn([msg |-> ErrVolName, key |-> <<>>], rVol, rPool,
                              [rIgn EXCEPT !.Name = ""])
    /\ UNCHANGED <<callVars, hostVars, clock, issued, codecVars, rId, rKey>>

\* lines 184-188: volPool, err := volume.LookupPoolByVolume()
ResolveLookupPool ==
    /\ rPc = "LookupPoolByVolume"
    /\ \E ok \in BOOLEAN :
        /\ rFault' = (rFault \/ ~ok)
        /\ IF ok
           THEN /\ rPool' = [name |-> VolumeByKey(rVol.key).pool, state |-> "open"]
                /\ rPc' = "PoolGetName"
                /\ UNCHANGED <<rIgn, rErr, rVol>>
           ELSE ResolveReturn([msg |-> ErrPoolForVolume, key |-> <<>>], rVol, rPool, rIgn)
    /\ UNCHANGED <<callVars, hostVars, clock, issued, codecVars, rId, rKey>>

\* lines 190-195: ign.PoolName, err = volPool.GetName(); return ign, nil
ResolvePoolGetName ==
    /\ rPc = "PoolGetName"
    /\ \E ok \in BOOLEAN :
        /\ rFault' = (rFault \/ ~ok)
        /\ IF ok
           THEN ResolveReturn([msg |-> NoErr, key |-> <<>>], rVol, rPool,
                              [rIgn EXCEPT !.PoolName = rPool.name])
           ELSE ResolveReturn([msg |-> ErrPoolName, key |-> <<>>], rVol, rPool,
                              [rIgn EXCEPT !.PoolName = ""])
    /\ UNCHANGED <<callVars, hostVars, clock, issued, codecVars, rId, rKey>>

newIgnitionDefFromRemoteVol ==
    \/ ResolveDecode
    \/ ResolveLookupVol
    \/ ResolveGetName
    \/ ResolveLookupPool
    \/ ResolvePoolGetName

----------------------------------------------------------------------------
(* Specification of concurrent provisioning calls *)

CallsIdle ==
    /\ pc = [c \in Calls |-> "idle"]
    /\ ign = [c \in Calls |-> newIgnitionDef]
    /\ tries = [c \in Calls |-> 0]
    /\ volumeDef = [c \in Calls |-> newDefVolume]
    /\ size = [c \in Calls |-> 0]
    /\ defers = [c \in Calls |-> <<>>]
    /\ poolHandle = [c \in Calls |-> "none"]
    /\ volHandle = [c \in Calls |-> NoHandle]
    /\ ret = [c \in Calls |-> [id |-> <<>>, err |-> NoErr]]
    /\ events = [c \in Calls |-> <<>>]
    /\ lockHolder = [p \in PoolNames |-> 0]
    /\ disk = [c \in Calls |-> None]
    /\ volumes = {}

Init ==
    /\ CallsIdle
    /\ clock = 0
    /\ issued = <<>>
    /\ cKey = <<>>
    /\ cId = <<>>
    /\ cOut = NoResult
    /\ ResolveIdle

Next == \E c \in Calls : CreateAndUpload(c)

Spec == Init /\ [][Next]_vars

\* a step of a call that has started
Running(c) == pc[c] # "idle" /\ CreateAndUpload(c)

\* the scheduler runs every started call that can take a step again and
\* again; host calls return
FairSpec == Spec /\ \A c \in Calls : WF_vars(Running(c))

----------------------------------------------------------------------------
(* Specification of the identifier codec on its own: a caller encodes a    *)
(* volume key any number of times and decodes an identifier.               *)

InitCodec ==
    /\ CallsIdle
    /\ clock = 0
    /\ issued = <<>>
    /\ cKey \in Strings
    /\ cId \in Strings
    /\ cOut = NoResult
    /\ ResolveIdle

\* id := buildTerraformKey(cKey)
Encode ==
    /\ clock < MaxEncodes
    /\ cId' = buildTerraformKey(cKey, clock)
    /\ issued' = Append(issued, cId')
    /\ clock' = clock + 1
    /\ cOut' = NoResult
    /\ UNCHANGED <<callVars, hostVars, cKey, resolveVars>>

\* key, err := getIgnitionVolumeKeyFromTerraformID(cId)
Decode ==
    /\ cOut = NoResult
    /\ cOut' = getIgnitionVolumeKeyFromTerraformID(cId)
    /\ UNCHANGED <<callVars, hostVars, clock, issued, cKey, cId, resolveVars>>

NextCodec == Encode \/ Decode

SpecCodec == InitCodec /\ [][NextCodec]_vars

----------------------------------------------------------------------------
(* Specification of a caller that provisions and resolves: one             *)
(* CreateAndUpload call and one newIgnitionDefFromRemoteVol call, which    *)
(* may start at any time with any identifier.                              *)

\* the provisioning call of this caller
Provisioner == 1

NextResolve == CreateAndUpload(Provisioner) \/ newIgnitionDefFromRemoteVol

SpecResolve == Init /\ [][NextResolve]_vars

----------------------------------------------------------------------------
(* Properties of CreateAndUpload, checked under Spec *)

Returned(c) == pc[c] = "done"
HoldsLock(c) == \E p \in PoolNames : lockHolder[p] = c
Called(c, op) == \E i \in DOMAIN events[c] : events[c][i].op = op
Succeeded(c, op) == Ev(op, TRUE) \in Range(events[c])
Failed(c, op) == Ev(op, FALSE) \in Range(events[c])
InvalidPayload(content) == content \notin DOMAIN LocalFiles /\ content \notin JsonObjects

\* steps 1-9 of a call, in the order of the code
StepOps == <<"LookupStoragePoolByName", "lock.Lock", "WaitForSuccess", "createFile",
             "newImage", "Size", "Marshal", "StorageVolCreateXML", "Import", "GetKey">>

IsStep(e) == e.op \in Range(StepOps)

\* C1: of the calls that target one pool name, at most one at a time is
\* between its pool refresh and its key retrieval (steps 3-9)
C1_MutualExclusion ==
    \A c, d \in Calls :
        (c # d /\ pc[c] \in LockedSteps /\ pc[d] \in LockedSteps)
            => ign[c].PoolName # ign[d].PoolName

\* one call is uploading while another call on the same pool waits for the lock
C1_Witness ==
    \E c, d \in Calls :
        /\ c # d
        /\ ign[c].PoolName = ign[d].PoolName
        /\ pc[c] = "Import"
        /\ pc[d] = "Lock"

\* C2 (as claimed): once a call has returned, and the removal did not fail, no
\* temp file created by the call is left on disk
C2_NoTempFileLeft ==
    \A c \in Calls :
        (Returned(c) /\ ~Failed(c, "os.Remove")) => disk[c] = None

\* C3: a call that has returned does not hold the lock of any pool, and a
\* call whose pool lookup failed never called Lock
C3_LockReleased ==
    \A c \in Calls :
        Returned(c) =>
            /\ ~HoldsLock(c)
            /\ Failed(c, "LookupStoragePoolByName") => ~Called(c, "lock.Lock")

\* a call that took the lock has failed at a later step and returned, and
\* another call's pool lookup has failed
C3_Witness ==
    \E c, d \in Calls :
        /\ Returned(c) /\ Succeeded(c, "lock.Lock") /\ ret[c].err = ErrUpload
        /\ Returned(d) /\ ret[d].err = ErrPoolNotFound

\* C4 (as claimed): a call with an invalid payload fails with the
\* invalid-payload error, creates no volume and leaves the lock free
C4_InvalidPayloadError ==
    \A c \in Calls :
        (Returned(c) /\ InvalidPayload(ign[c].Content)) =>
            /\ ret[c].err = ErrInvalidPayload
            /\ ~Called(c, "StorageVolCreateXML")
            /\ ~HoldsLock(c)

\* C4 (amended): a call with an invalid payload fails, with the
\* invalid-payload error once its pool lookup, its refresh and the creation
\* of its temp file have succeeded and with the error of the first of these
\* to fail otherwise; it creates no volume and leaves the lock free
C4_InvalidPayloadFails ==
    \A c \in Calls :
        (Returned(c) /\ InvalidPayload(ign[c].Content)) =>
            /\ ret[c].id = <<>>
            /\ IF Failed(c, "LookupStoragePoolByName") THEN ret[c].err = ErrPoolNotFound
               ELSE IF Failed(c, "WaitForSuccess") THEN ret[c].err = ErrRefresh
               ELSE IF disk[c] = None THEN ret[c].err = ErrTempFile
               ELSE ret[c].err = ErrInvalidPayload
            /\ ~Called(c, "StorageVolCreateXML")
            /\ ~HoldsLock(c)

\* a call with an invalid payload got as far as createFile and returned
C4_Witness ==
    \E c \in Calls :
        /\ Returned(c) /\ InvalidPayload(ign[c].Content)
        /\ Failed(c, "createFile") /\ disk[c] # None
        /\ ret[c].err = ErrInvalidPayload

\* the steps of call c so far, without the refresh attempts and the deferred calls
StepsOf(c) == SelectSeq(events[c], IsStep)

\* C5: a returned call has a non-empty identifier exactly when each of steps
\* 1-9 succeeded; otherwise it has the empty identifier and an error, and the
\* step that failed is the last step it performed
C5_FailFast ==
    \A c \in Calls :
        Returned(c) =>
            LET steps == StepsOf(c)
                allOk == \A i \in DOMAIN StepOps : Succeeded(c, StepOps[i])
            IN  /\ ret[c].id # <<>> <=> allOk
                /\ allOk => ret[c].err = NoErr
                /\ ~allOk =>
                    /\ ret[c].id = <<>>
                    /\ ret[c].err # NoErr
                    /\ steps # <<>>
                    /\ ~steps[Len(steps)].ok
                    /\ \A i \in 1..(Len(steps) - 1) : steps[i].ok
                    /\ \A i \in DOMAIN steps : steps[i].op = StepOps[i]

\* one call failed at volume creation and another one succeeded
C5_Witness ==
    \E c, d \in Calls :
        /\ Returned(c) /\ ret[c].err = ErrCreate /\ ~Called(c, "Import")
        /\ Returned(d) /\ ret[d].err = NoErr /\ ret[d].id # <<>>

\* the volume on the host that call c created
VolumeOf(c) == {v \in volumes : v.key = volHandle[c].key}

\* C7: a volume that a call created stays in the pool: when the upload or
\* the key retrieval fails afterwards the call returns an error and the empty
\* identifier, and the volume is still there
C7_NoRollback ==
    \A c \in Calls :
        Succeeded(c, "StorageVolCreateXML") =>
            /\ \E v \in VolumeOf(c) :
                   v.pool = ign[c].PoolName /\ v.name = ign[c].Name
            /\ (Returned(c) /\ (Failed(c, "Import") \/ Failed(c, "GetKey"))) =>
                   (ret[c].err \in {ErrUpload, ErrGetKey} /\ ret[c].id = <<>>)

\* one call failed at the upload and another at the key retrieval, both
\* after their volume was created
C7_Witness ==
    \E c, d \in Calls :
        /\ Returned(c) /\ ret[c].err = ErrUpload /\ VolumeOf(c) # {}
        /\ Returned(d) /\ ret[d].err = ErrGetKey /\ VolumeOf(d) # {}

\* C8: after a successful call the pool PoolName holds a raw volume named
\* Name whose capacity in bytes is the probed size of the artifact, the
\* upload was sized to that capacity, and the identifier is the volume's
\* host-assigned key, a ";" and a token
C8_Success ==
    \A c \in Calls :
        (Returned(c) /\ ret[c].err = NoErr) =>
            \E v \in volumes :
                /\ v.pool = ign[c].PoolName
                /\ v.name = ign[c].Name
                /\ v.fmt = "raw"
                /\ v.unit = "B"
                /\ v.cap = size[c]
                /\ v.cap = Len(v.data)
                /\ v.upsize = v.cap
                /\ v.key = volHandle[c].key
                /\ \E n \in 0..clock :
                       ret[c].id = v.key \o <<";">> \o TimeOrderedUUID(n)

\* the request {node1, default, /tmp/ign.json} has succeeded, with a key
\* that holds a ";"
C8_Witness ==
    \E c \in Calls :
        /\ Returned(c) /\ ret[c].err = NoErr
        /\ ign[c] = [Name |-> "node1", PoolName |-> "default", Content |-> "/tmp/ign.json"]
        /\ volHandle[c].key = <<"b", ";", "a">>
        /\ \E v \in volumes : v.name = "node1" /\ v.cap = Len(LocalFiles["/tmp/ign.json"])

\* C12 (as claimed): createFile has one of three outcomes: a payload that
\* names an existing readable file gives an artifact with the file's
\* contents, any other payload that parses as a JSON object gives an artifact
\* with the payload string, and any other payload gives the invalid-payload
\* error and no artifact path
C12_ThreeOutcomes ==
    \A c \in Calls :
        Called(c, "createFile") =>
            IF ign[c].Content \in DOMAIN LocalFiles /\ ret[c].err # ErrOpen
            THEN /\ Succeeded(c, "createFile")
                 /\ ~Returned(c) => disk[c] = LocalFiles[ign[c].Content]
            ELSE IF ign[c].Content \in JsonObjects
            THEN /\ Succeeded(c, "createFile")
                 /\ ~Returned(c) => disk[c] = ign[c].Content
            ELSE /\ Failed(c, "createFile")
                 /\ ret[c].err = ErrInvalidPayload
                 /\ ~Called(c, "newImage")

\* C12 (amended): when createFile succeeds the artifact holds the file's
\* contents for a payload that names an existing file and the payload string
\* for any other payload, which then parses as a JSON object; an invalid
\* payload always fails; a failure is the temp-file, open, copy or write
\* error of the file operation that failed, or else the invalid-payload
\* error, and the artifact is not used
C12_Materialize ==
    \A c \in Calls :
        Called(c, "createFile") =>
            /\ (Succeeded(c, "createFile") /\ ~Returned(c)) =>
                   IF ign[c].Content \in DOMAIN LocalFiles
                   THEN disk[c] = LocalFiles[ign[c].Content]
                   ELSE ign[c].Content \in JsonObjects /\ disk[c] = ign[c].Content
            /\ InvalidPayload(ign[c].Content) => Failed(c, "createFile")
            /\ Failed(c, "createFile") =>
                   /\ ~Called(c, "newImage")
                   /\ ret[c].id = <<>>
                   /\ ret[c].err \in
                          IF ign[c].Content \in DOMAIN LocalFiles
                          THEN {ErrTempFile, ErrOpen, ErrCopy}
                          ELSE IF ign[c].Content \in JsonObjects
                          THEN {ErrTempFile, ErrWrite}
                          ELSE {ErrTempFile, ErrInvalidPayload}
                   /\ (ret[c].err = ErrInvalidPayload) =>
                          (InvalidPayload(ign[c].Content) /\ disk[c] # None)

\* one call holds the artifact of a file payload, another one that of an
\* inline payload
C12_Witness ==
    \E c, d \in Calls :
        /\ pc[c] = "newImage" /\ ign[c].Content \in DOMAIN LocalFiles
        /\ disk[c] = LocalFiles[ign[c].Content]
        /\ pc[d] = "newImage" /\ ign[d].Content \in JsonObjects
        /\ disk[d] = ign[d].Content

\* another call holds the lock of the pool that call d targets
SamePoolHolder(d) ==
    \E c \in Calls \ {d} : HoldsLock(c) /\ ign[c].PoolName = ign[d].PoolName

\* C13: a call is never held up by calls on other pools: whenever no other
\* call on its own pool holds the lock, a call that has started and not
\* returned can take its next step, whatever the calls on other pools do
C13_NoCrossBlocking ==
    \A d \in Calls :
        (pc[d] \notin {"idle", "done"} /\ ~SamePoolHolder(d))
            => ENABLED CreateAndUpload(d)

\* one call retries the refresh under the lock of its pool while a call on
\* another pool, under that pool's lock, is at its last step
C13_Witness ==
    \E c, d \in Calls :
        /\ ign[c].PoolName # ign[d].PoolName
        /\ pc[c] = "Refresh" /\ tries[c] >= 1 /\ lockHolder[ign[c].PoolName] = c
        /\ pc[d] = "GetKey" /\ lockHolder[ign[d].PoolName] = d

\* the calls that run deferred, at the return
DeferredOps == {"pool.Free", "lock.Unlock", "os.Remove", "volume.Free"}

IsBody(e) == e.op \notin DeferredOps

\* what call c did before its return: its steps and its refresh attempts
BodyOf(c) == SelectSeq(events[c], IsBody)

Count(c, op) == Cardinality({i \in DOMAIN events[c] : events[c][i].op = op})

\* C14: the steps of a call happen in the order of StepOps, each one after
\* the one before it succeeded; volume creation, upload and key fetch happen
\* at most once; only pool.Refresh is repeated, each time after a failed
\* attempt and before the call moves on
C14_Order ==
    \A c \in Calls :
        LET steps == StepsOf(c)
            body == BodyOf(c)
        IN  /\ \A i \in DOMAIN steps : steps[i].op = StepOps[i]
            /\ \A i \in 1..(Len(steps) - 1) : steps[i].ok
            /\ \A i \in DOMAIN StepOps : Count(c, StepOps[i]) <= 1
            /\ \A i \in DOMAIN body :
                   /\ body[i].op = "pool.Refresh" =>
                          /\ i >= 3
                          /\ body[2] = Ev("lock.Lock", TRUE)
                          /\ \A j \in 3..(i - 1) : body[j] = Ev("pool.Refresh", FALSE)
                   /\ body[i].op = "WaitForSuccess" =>
                          /\ i >= 4
                          /\ body[i - 1] = Ev("pool.Refresh", body[i].ok)
            /\ \A i, j \in DOMAIN events[c] :
                   (i < j /\ ~IsBody(events[c][i])) => ~IsBody(events[c][j])

\* a call whose first refresh attempt failed has gone through all its steps
C14_Witness ==
    \E c \in Calls :
        /\ Returned(c) /\ Succeeded(c, "GetKey")
        /\ Count(c, "pool.Refresh") >= 2

\* the refresh of a call: at most MaxRetries attempts; a successful attempt
\* ends the retries and the call goes on to createFile; when all attempts
\* failed the call has returned the refresh error and has made no temp file
\* and no volume
C15_Bounded ==
    \A c \in Calls :
        /\ Count(c, "pool.Refresh") <= MaxRetries
        /\ Succeeded(c, "pool.Refresh") =>
               /\ Succeeded(c, "WaitForSuccess")
               /\ pc[c] = "createFile" \/ Called(c, "createFile")
        /\ Failed(c, "WaitForSuccess") =>
               /\ Count(c, "pool.Refresh") = MaxRetries
               /\ ~Succeeded(c, "pool.Refresh")
               /\ Returned(c)
               /\ ret[c] = [id |-> <<>>, err |-> ErrRefresh]
               /\ ~Called(c, "createFile")
               /\ disk[c] = None
               /\ ~Called(c, "StorageVolCreateXML")
               /\ VolumeOf(c) = {}

\* C15: the refresh is retried a bounded number of times, with the outcomes
\* of C15_Bounded, and a call that is refreshing eventually stops refreshing
C15_RetryFinite ==
    /\ []C15_Bounded
    /\ \A c \in Calls : (pc[c] = "Refresh") ~> (pc[c] # "Refresh")

\* one call gave up after MaxRetries failed attempts, another one went on
\* after a failed and a successful attempt
C15_Witness ==
    \E c, d \in Calls :
        /\ Returned(c) /\ ret[c].err = ErrRefresh /\ Count(c, "pool.Refresh") = MaxRetries
        /\ Failed(d, "pool.Refresh") /\ Succeeded(d, "pool.Refresh") /\ Called(d, "createFile")

\* the error CreateAndUpload returns when step op, a step after createFile, fails
StepErr(op) ==
    CASE op = "newImage" -> ErrImage
      [] op = "Size" -> ErrSize
      [] op = "Marshal" -> ErrMarshal
      [] op = "StorageVolCreateXML" -> ErrCreate
      [] op = "Import" -> ErrUpload
      [] op = "GetKey" -> ErrGetKey
      [] OTHER -> None

\* C16: what a call returns after the deferred os.Remove ran is fixed by the
\* outcome of its steps alone, whether the removal succeeded or failed: the
\* identifier of its volume and no error when all steps succeeded, the empty
\* identifier and the error of the failed step otherwise
C16_RemoveSwallowed ==
    \A c \in Calls :
        (Returned(c) /\ Called(c, "os.Remove")) =>
            LET steps == StepsOf(c)
                last == steps[Len(steps)]
            IN  IF last.ok
                THEN /\ last.op = "GetKey"
                     /\ ret[c].err = NoErr
                     /\ \E n \in 0..clock :
                            ret[c].id = volHandle[c].key \o <<";">> \o TimeOrderedUUID(n)
                ELSE ret[c] = [id |-> <<>>, err |-> StepErr(last.op)]

\* the removal failed after a call that succeeded and after a call whose
\* upload failed
C16_Witness ==
    \E c, d \in Calls :
        /\ Returned(c) /\ Failed(c, "os.Remove") /\ ret[c].err = NoErr /\ disk[c] # None
        /\ Returned(d) /\ Failed(d, "os.Remove") /\ ret[d].err = ErrUpload

\* the place of a deferred call in the order in which a return runs them
DeferRank(op) ==
    CASE op = "volume.Free" -> 1
      [] op = "os.Remove" -> 2
      [] op = "lock.Unlock" -> 3
      [] op = "pool.Free" -> 4
      [] OTHER -> 0

\* the state of a handle that was obtained or not, before and after the return
HandleState(obtained, returned) ==
    IF ~obtained THEN "none" ELSE IF returned THEN "freed" ELSE "open"

\* C18: the pool handle is open from the lookup that obtained it to the
\* return and freed exactly once by the return, the volume handle likewise
\* from the volume creation that succeeded; a handle never obtained is never
\* freed; the frees come after everything else the call did, in the order
\* volume.Free, os.Remove, lock.Unlock, pool.Free
C18_NoHandleLeak ==
    \A c \in Calls :
        LET gotPool == Succeeded(c, "LookupStoragePoolByName")
            gotVol == Succeeded(c, "StorageVolCreateXML")
            n == Len(BodyOf(c))
        IN  /\ poolHandle[c] = HandleState(gotPool, Returned(c))
            /\ volHandle[c].state = HandleState(gotVol, Returned(c))
            /\ Count(c, "pool.Free") = (IF gotPool /\ Returned(c) THEN 1 ELSE 0)
            /\ Count(c, "volume.Free") = (IF gotVol /\ Returned(c) THEN 1 ELSE 0)
            /\ pc[c] \in {"Refresh", "StorageVolCreateXML"} => poolHandle[c] = "open"
            /\ pc[c] \in {"Import", "GetKey"} => volHandle[c].state = "open"
            /\ SubSeq(events[c], 1, n) = BodyOf(c)
            /\ \A i, j \in (n + 1)..Len(events[c]) :
                   i < j => DeferRank(events[c][i].op) < DeferRank(events[c][j].op)

\* a call returned with all four deferred calls run, and a call returned
\* after its volume creation failed, with its pool handle freed and no volume
\* handle
C18_Witness ==
    \E c, d \in Calls :
        /\ Returned(c) /\ ret[c].err = NoErr
        /\ Count(c, "volume.Free") = 1 /\ Count(c, "pool.Free") = 1
        /\ Called(c, "os.Remove") /\ Called(c, "lock.Unlock")
        /\ Returned(d) /\ ret[d].err = ErrCreate
        /\ poolHandle[d] = "freed" /\ volHandle[d].state = "none"

\* the pool locks call c holds
LocksHeld(c) == {p \in PoolNames : lockHolder[GetLock(p)] = c}

\* call c is at lock.Lock() and the lock of its pool is held
Blocked(c) == pc[c] = "Lock" /\ lockHolder[GetLock(ign[c].PoolName)] # 0

\* a call holds at most one pool lock and none while it waits for one, and
\* whenever a call is blocked on a pool lock another call holds that lock and
\* can take a step
C19_NoDeadlock ==
    \A c \in Calls :
        /\ Cardinality(LocksHeld(c)) <= 1
        /\ pc[c] = "Lock" => LocksHeld(c) = {}
        /\ Blocked(c) =>
               \E d \in Calls \ {c} :
                   /\ lockHolder[GetLock(ign[c].PoolName)] = d
                   /\ ENABLED CreateAndUpload(d)

\* C19: no deadlock (C19_NoDeadlock in every reachable state) and, under fair
\* scheduling of the started calls, every started call eventually returns and
\* every call waiting for a pool lock eventually holds it
C19_Progress ==
    /\ []C19_NoDeadlock
    /\ \A c \in Calls : (pc[c] # "idle") ~> Returned(c)
    /\ \A c \in Calls : (pc[c] = "Lock") ~> (LocksHeld(c) = {GetLock(ign[c].PoolName)})

\* a call is blocked on the lock of its pool while the other call, which
\* holds it, is between createFile and the return
C19_Witness ==
    \E c, d \in Calls :
        /\ Blocked(c)
        /\ lockHolder[GetLock(ign[c].PoolName)] = d
        /\ pc[d] = "Import"

----------------------------------------------------------------------------
(* Properties of the identifier codec, checked under SpecCodec *)

\* cId is the identifier the last Encode built from cKey
Encoded == issued # <<>> /\ cId = issued[Len(issued)]

\* C6 (as claimed): decoding the identifier built from a non-empty key
\* returns that key, without an error
C6_RoundTrip ==
    (cOut # NoResult /\ Encoded /\ cKey # <<>>) => cOut = [key |-> cKey, err |-> NoErr]

\* C9: the identifiers issued are pairwise distinct, also when they are
\* built from the same volume key
C9_NeverReused ==
    \A i, j \in DOMAIN issued : i # j => issued[i] # issued[j]

\* several identifiers were built from one non-empty key
C9_Witness ==
    /\ Len(issued) >= 2
    /\ cKey # <<>>
    /\ \A i \in DOMAIN issued : SubSeq(issued[i], 1, Len(cKey) + 1) = cKey \o <<";">>

\* C10: decoding fails with the invalid-identifier error exactly when the
\* identifier holds no ";"; otherwise it returns what precedes the first ";"
C10_Decode ==
    cOut # NoResult =>
        IF ";" \notin Range(cId)
        THEN cOut.err = ErrInvalidKey
        ELSE /\ cOut.err = NoErr
             /\ ";" \notin Range(cOut.key)
             /\ Len(cOut.key) < Len(cId)
             /\ SubSeq(cId, 1, Len(cOut.key) + 1) = cOut.key \o <<";">>

\* an identifier with a ";" after its first ";" was decoded to a non-empty key
C10_Witness ==
    /\ cOut # NoResult
    /\ cOut.err = NoErr
    /\ cOut.key # <<>>
    /\ Cardinality({i \in DOMAIN cId : cId[i] = ";"}) >= 2

----------------------------------------------------------------------------
(* Properties of newIgnitionDefFromRemoteVol, checked under SpecResolve *)

Resolved == rPc = "done"

\* the resolve got its volume handle / its pool handle before it returned
GotVolume == rErr.msg \in {NoErr, ErrVolName, ErrPoolForVolume, ErrPoolName}
GotPool == rErr.msg \in {NoErr, ErrPoolName}

\* k is what precedes the first ";" of id
KeyOf(id, k) ==
    /\ ";" \notin Range(k)
    /\ Len(k) < Len(id)
    /\ SubSeq(id, 1, Len(k) + 1) = k \o <<";">>

\* the outcome of a resolve that has returned: each handle it obtained is
\* freed, none is left open, and a decoded key that is not on the host gives
\* the volume-not-found error naming that key
C11_Outcome ==
    Resolved =>
        /\ rVol.state = (IF GotVolume THEN "freed" ELSE "none")
        /\ rPool.state = (IF GotPool THEN "freed" ELSE "none")
        /\ (";" \notin Range(rId)) => rErr.msg = ErrInvalidKey
        /\ \A k \in Strings :
               (KeyOf(rId, k) /\ ~\E v \in volumes : v.key = k)
                   => rErr = [msg |-> ErrCantRetrieve, key |-> k]

\* C11: newIgnitionDefFromRemoteVol changes no lock, temp file or volume,
\* on every outcome it has released the handles it obtained when it returns,
\* and a decoded key that is not on the host gives the volume-not-found error
\* naming that key
C11_ReadOnlyLeakFree ==
    /\ []C11_Outcome
    /\ [][rPc' # rPc => UNCHANGED <<hostVars, callVars>>]_vars

\* a resolve obtained both handles, failed to read the pool name and returned,
\* on a host that holds a volume
C11_Witness ==
    /\ Resolved
    /\ rErr.msg = ErrPoolName
    /\ rVol.state = "freed"
    /\ rPool.state = "freed"
    /\ volumes # {}

\* C17: when CreateAndUpload succeeded and returned an identifier, a resolve
\* of that identifier whose host calls do not fail succeeds and returns the
\* Name and PoolName of the request, for every key the host assigned
C17_ResolveInverts ==
    \A c \in Calls :
        (/\ Resolved
         /\ ~rFault
         /\ Returned(c)
         /\ ret[c].err = NoErr
         /\ rId = ret[c].id)
            => /\ rErr.msg = NoErr
               /\ rIgn.Name = ign[c].Name
               /\ rIgn.PoolName = ign[c].PoolName

====
